---- MODULE Spec2Model ----
(***************************************************************************)
(* csc_booking_bot: the request store (database.py), the batch run of the  *)
(* scheduler (scheduler.py), the command handlers that write the store     *)
(* (main.py) and the booking engine (booking_scraper.py).                  *)
(***************************************************************************)
EXTENDS Integers, Sequences, FiniteSets, TLC

\* ------------------------------------------------------------------ bounds
MaxReq == 3
MaxDay == 1
MaxTriggers == 1
NumUsers == 2

\* scheduler.py:30  timedelta(days=2)
LeadDays == 2

Users == 1..NumUsers
\* the users whose commands arrive while batch runs are interleaved
BatchUsers == {1}
Days == 0..MaxDay
Dates == (LeadDays - 1)..(MaxDay + LeadDays)
Runners == {"timer", "manual"}

VARIABLES
    requests,    \* the requests table: row id -> row (database.py:18-30)
    today,       \* datetime.now().date(), as a day number
    jobDue,      \* the daily 07:00 job is due and has not run yet today
    triggers,    \* number of trigger_now calls made so far
    pc,          \* per thread: position inside process_pending_requests
    fetched,     \* per thread: the local list `requests` (row ids, in order)
    idx,         \* per thread: position of the for loop in `fetched`
    driver,      \* per thread: scraper.driver is not None
    loggedIn,    \* per thread: scraper.login() returned True in this run
    result,      \* per thread: the dict returned by the last make_booking
    attempts,    \* row id -> number of make_booking calls made for it
    runLog,      \* per thread: ids this run called make_booking for, in order
    notified,    \* per thread: ids this run called bot.send_message for, in order
    sendFailed,  \* per thread: ids for which this run's send_message raised
    logins,      \* per thread: calls of scraper.login() made by this run
    paused,      \* per thread: time.sleep(2) ran since this run's last make_booking
    epc,         \* make_booking: the stage the call is at
    esel,        \* make_booking: index into the selector list being tried
    ecourt,      \* make_booking: court_preference is given
    etrace,      \* make_booking: what has happened in the call, in order
    eret,        \* make_booking: the dict returned
    etarget,     \* make_booking: the entry cell target_xpath looks for
    pgSuccess,   \* the page after the submit click: the success indicators
                 \* (positions in success_indicators) that are displayed
    pgError,     \* the same for error_indicators
    efound,      \* make_booking: the indicator whose text went into the result
    tin,         \* the argument time_str / time_slot (a string, as characters)
    tout,        \* what _convert_time_format returned (formatted_time)
    cargs,       \* book_command: context.args
    cout,        \* book_command: the reply sent and the row stored, if any
    running,     \* BookingScheduler.running
    jobs,        \* number of jobs registered with the schedule module
    threads,     \* where each run_scheduler thread ever started stands
    calls        \* number of start() and stop() calls made

bvars == <<requests, today, jobDue, triggers, pc, fetched, idx, driver,
           loggedIn, result, attempts, runLog, notified, sendFailed,
           logins, paused>>
evars == <<epc, esel, ecourt, etrace, eret, etarget, pgSuccess, pgError,
           efound>>
tvars == <<tin, tout>>
cvars == <<cargs, cout>>
svars == <<running, jobs, threads, calls>>
xvars == <<cvars, svars>>
vars == <<bvars, evars, tvars, xvars>>

\* ------------------------------------------------------------- the store
NULL == <<>>
NoMessage == "NULL"
NoResult == [success |-> FALSE, message |-> NoMessage]

Terminal == {"completed", "failed", "cancelled"}

\* database.py:35-50  INSERT ... VALUES (..., 'pending', created_at)
add_request(db, user_id, requested_date) ==
    Append(db, [user_id        |-> user_id,
                requested_date |-> requested_date,
                status         |-> "pending",
                processed_at   |-> NULL,
                result_message |-> NoMessage])

\* the rows the WHERE clause of get_requests_for_date selects
MatchesAnyDate(db, id, target_date) ==
    db[id].status = "pending"
Matches(db, id, target_date) ==
    db[id].status = "pending" /\ db[id].requested_date = target_date

RECURSIVE SelectFrom(_, _, _)
SelectFrom(db, id, target_date) ==
    IF id > Len(db) THEN <<>>
    ELSE IF Matches(db, id, target_date)
         THEN <<id>> \o SelectFrom(db, id + 1, target_date)
         ELSE SelectFrom(db, id + 1, target_date)

\* database.py:64-76  ... ORDER BY created_at (rows are created in id order)
get_requests_for_date(db, target_date) == SelectFrom(db, 1, target_date)

\* database.py:92-104  UPDATE ... SET status, processed_at, result_message WHERE id = ?
update_request_status(db, request_id, status, result_message, now) ==
    [db EXCEPT ![request_id] =
        [@ EXCEPT !.status = status,
                  !.processed_at = <<now>>,
                  !.result_message = result_message]]

\* database.py:110-115  rows matched by WHERE id = ? AND user_id = ? AND status = 'pending'
CancelMatchesNoOwner(db, request_id, user_id) ==
    /\ request_id \in DOMAIN db
    /\ db[request_id].status = "pending"
CancelMatches(db, request_id, user_id) ==
    /\ request_id \in DOMAIN db
    /\ db[request_id].user_id = user_id
    /\ db[request_id].status = "pending"

\* database.py:115-118  success = cursor.rowcount > 0
cancel_returns(db, request_id, user_id) == CancelMatches(db, request_id, user_id)

\* database.py:106-118  the table after cancel_request
cancel_request(db, request_id, user_id) ==
    IF CancelMatches(db, request_id, user_id)
    THEN [db EXCEPT ![request_id] = [@ EXCEPT !.status = "cancelled"]]
    ELSE db

\* ------------------------------------------------------ the booking engine
\* booking_scraper.py:237-431  the dicts make_booking returns
MsgConfirmed    == "Booking confirmed"
MsgNoClick      == "Found entry slot but could not trigger the click event."
MsgNoEntry      == "Entry slot (ID 11 at 06:00 AM) not found in grid."
MsgNoTime       == "Could not select time in form dropdown."
MsgNoSubmit     == "Could not find or click submit button"
MsgFailed       == "Booking failed"
MsgUndetermined == "Could not determine booking status - no clear success or error message found. Please verify manually."
MsgError        == "Booking error"

MakeBookingOutcomes ==
    {[success |-> TRUE, message |-> MsgConfirmed]} \cup
    {[success |-> FALSE, message |-> m] :
        m \in {MsgNoClick, MsgNoEntry, MsgNoTime, MsgNoSubmit, MsgFailed,
               MsgUndetermined, MsgError}}

\* The outcomes the batch run is checked with. The run reads only
\* result['success'] and copies result['message'] (scheduler.py:80-85), so one
\* outcome of each kind stands for the others.
BatchOutcomes ==
    {[success |-> TRUE, message |-> MsgConfirmed],
     [success |-> FALSE, message |-> MsgNoEntry]}

\* ---------------------------------------------------------- the batch run
MsgLoginFailed == "Failed to login to booking website"

BatchInit ==
    /\ requests = <<>>
    /\ today = 0
    /\ jobDue = TRUE
    /\ triggers = 0
    /\ pc = [k \in Runners |-> "idle"]
    /\ fetched = [k \in Runners |-> <<>>]
    /\ idx = [k \in Runners |-> 0]
    /\ driver = [k \in Runners |-> FALSE]
    /\ loggedIn = [k \in Runners |-> FALSE]
    /\ result = [k \in Runners |-> NoResult]
    /\ attempts = <<>>
    /\ runLog = [k \in Runners |-> <<>>]
    /\ notified = [k \in Runners |-> <<>>]
    /\ sendFailed = [k \in Runners |-> <<>>]
    /\ logins = [k \in Runners |-> 0]
    /\ paused = [k \in Runners |-> FALSE]

\* _convert_time_format has not been called
NotCalled == <<"none">>
\* target_xpath has not been built
NoTarget == [area_id |-> "", start_time |-> <<>>]

\* book_command has not been called
NotRun == [reply |-> "none", created |-> FALSE]
CommandOff == cargs = <<>> /\ cout = NotRun

\* scheduler.py:16-22  a constructed BookingScheduler: not running, no thread,
\* and no job registered
SchedulerInit ==
    /\ running = FALSE
    /\ jobs = 0
    /\ threads = <<>>
    /\ calls = 0

\* no indicator has been found displayed
NoneFound == [list |-> "none", index |-> 0]

\* no make_booking call is being followed stage by stage
EngineOff ==
    /\ epc = "off"
    /\ esel = 0
    /\ ecourt = FALSE
    /\ etrace = <<>>
    /\ eret = NoResult
    /\ etarget = NoTarget
    /\ CommandOff
    /\ SchedulerInit
    /\ pgSuccess = {}
    /\ pgError = {}
    /\ efound = NoneFound
    /\ tin = <<>>
    /\ tout = NotCalled

Init == BatchInit /\ EngineOff

\* the id the for loop of thread k is at (scheduler.py:56, 68)
Req(k) == fetched[k][idx[k]]

Bump(f, id) == [f EXCEPT ![id] = @ + 1]

\* main.py:42-118  book_command: a date not in the past is stored as pending
Book(u, d) ==
    /\ Len(requests) < MaxReq
    /\ d >= today
    /\ requests' = add_request(requests, u, d)
    /\ attempts' = Append(attempts, 0)
    /\ UNCHANGED <<evars, tvars, xvars, sendFailed, logins, paused>>
    /\ UNCHANGED <<today, jobDue, triggers, pc, fetched, idx, driver,
                   loggedIn, result, runLog, notified>>

\* main.py:162-183  cancel_command -> database.py:106-118 cancel_request
Cancel(id, u) ==
    /\ requests' = cancel_request(requests, id, u)
    /\ UNCHANGED <<evars, tvars, xvars, sendFailed, logins, paused>>
    /\ UNCHANGED <<today, jobDue, triggers, pc, fetched, idx, driver,
                   loggedIn, result, attempts, runLog, notified>>

\* midnight: the 07:00 job of the new day becomes due (scheduler.py:118)
Tick ==
    /\ today < MaxDay
    /\ today' = today + 1
    /\ jobDue' = TRUE
    /\ UNCHANGED <<evars, tvars, xvars, sendFailed, logins, paused>>
    /\ UNCHANGED <<requests, triggers, pc, fetched, idx, driver, loggedIn,
                   result, attempts, runLog, notified>>

\* scheduler.py:36-52  an empty list returns at once; otherwise the scraper is
\* created and login() is called
AlwaysLogin(reqs) == "login"
FirstPc(reqs) == IF reqs = <<>> THEN "ended" ELSE "login"

\* scheduler.py:28-40  target date, fetch, early return on an empty list
BeginRun(k) ==
    LET target_date == today + LeadDays
        reqs == get_requests_for_date(requests, target_date)
    IN  /\ pc[k] = "idle"
        /\ fetched' = [fetched EXCEPT ![k] = reqs]
        /\ pc' = [pc EXCEPT ![k] = FirstPc(reqs)]
        /\ UNCHANGED <<evars, tvars, xvars, sendFailed, logins, paused>>
    /\ UNCHANGED <<requests, today, idx, driver, loggedIn, result,
                       attempts, runLog, notified>>

\* scheduler.py:118, 122-126  the polling thread runs the due job
TimerFire ==
    /\ jobDue
    /\ jobDue' = FALSE
    /\ BeginRun("timer")
    /\ UNCHANGED triggers

\* scheduler.py:138-141  trigger_now, on the caller's thread
TriggerNow ==
    /\ triggers < MaxTriggers
    /\ triggers' = triggers + 1
    /\ BeginRun("manual")
    /\ UNCHANGED jobDue

\* booking_scraper.py:56-57, 46-52  _setup_driver raises out of login();
\* created: whether webdriver.Chrome() had returned before the exception
LoginRaises(k) ==
    /\ pc[k] = "login"
    /\ \E created \in BOOLEAN : driver' = [driver EXCEPT ![k] = created]
    /\ pc' = [pc EXCEPT ![k] = "finally_raise"]
    /\ logins' = [logins EXCEPT ![k] = @ + 1]
    /\ UNCHANGED <<evars, tvars, xvars, sendFailed, paused>>
    /\ UNCHANGED <<requests, today, jobDue, triggers, fetched, idx, loggedIn,
                   result, attempts, runLog, notified>>

\* scheduler.py:52-54  login() returned False (booking_scraper.py:84,103,149,156)
LoginFalse(k) ==
    /\ pc[k] = "login"
    /\ driver' = [driver EXCEPT ![k] = TRUE]
    /\ idx' = [idx EXCEPT ![k] = 1]
    /\ pc' = [pc EXCEPT ![k] = "fail_update"]
    /\ logins' = [logins EXCEPT ![k] = @ + 1]
    /\ UNCHANGED <<evars, tvars, xvars, sendFailed, paused>>
    /\ UNCHANGED <<requests, today, jobDue, triggers, fetched, loggedIn,
                   result, attempts, runLog, notified>>

\* scheduler.py:52  login() returned True (booking_scraper.py:152)
LoginTrue(k) ==
    /\ pc[k] = "login"
    /\ driver' = [driver EXCEPT ![k] = TRUE]
    /\ loggedIn' = [loggedIn EXCEPT ![k] = TRUE]
    /\ idx' = [idx EXCEPT ![k] = 1]
    /\ pc' = [pc EXCEPT ![k] = "book"]
    /\ logins' = [logins EXCEPT ![k] = @ + 1]
    /\ UNCHANGED <<evars, tvars, xvars, sendFailed, paused>>
    /\ UNCHANGED <<requests, today, jobDue, triggers, fetched, result,
                   attempts, runLog, notified>>

\* scheduler.py:57  the login-failure loop persists 'failed'
FailStatus == "failed"
FailUpdate(k) ==
    /\ pc[k] = "fail_update"
    /\ requests' = update_request_status(requests, Req(k), FailStatus,
                                         MsgLoginFailed, today)
    /\ pc' = [pc EXCEPT ![k] = "fail_notify"]
    /\ UNCHANGED <<evars, tvars, xvars, sendFailed, logins, paused>>
    /\ UNCHANGED <<today, jobDue, triggers, fetched, idx, driver, loggedIn,
                   result, attempts, runLog, notified>>

NextPcStopOnFailure(k, again) ==
    IF idx[k] < Len(fetched[k]) /\ result[k].success THEN again ELSE "finally"
\* where the for loop goes after the body for fetched[k][idx[k]]
NextPc(k, again) == IF idx[k] < Len(fetched[k]) THEN again ELSE "finally"

\* scheduler.py:58-65  notify (an exception of send_message is swallowed),
\* next request, or return through the finally clause
FailNotify(k) ==
    /\ pc[k] = "fail_notify"
    /\ notified' = [notified EXCEPT ![k] = Append(@, Req(k))]
    /\ idx' = [idx EXCEPT ![k] = @ + 1]
    /\ pc' = [pc EXCEPT ![k] = NextPc(k, "fail_update")]
    /\ UNCHANGED <<evars, tvars, xvars, sendFailed, logins, paused>>
    /\ UNCHANGED <<requests, today, jobDue, triggers, fetched, driver,
                   loggedIn, result, attempts, runLog>>

\* scheduler.py:72-81  after make_booking has returned the outcome is persisted
NotifiesFirst == "notify"
AfterBook == "update"

\* scheduler.py:72-77  one call of make_booking for the request at idx
MakeBooking(k) ==
    /\ pc[k] = "book"
    /\ \E r \in BatchOutcomes : result' = [result EXCEPT ![k] = r]
    /\ attempts' = Bump(attempts, Req(k))
    /\ runLog' = [runLog EXCEPT ![k] = Append(@, Req(k))]
    /\ pc' = [pc EXCEPT ![k] = AfterBook]
    /\ paused' = [paused EXCEPT ![k] = FALSE]
    /\ UNCHANGED <<evars, tvars, xvars, sendFailed, logins>>
    /\ UNCHANGED <<requests, today, jobDue, triggers, fetched, idx, driver,
                   loggedIn, notified>>

\* scheduler.py:80  status = 'completed' if result['success'] else 'failed'
StatusOfRetry(r) == IF r.success THEN "completed" ELSE "pending"
StatusOf(r) == IF r.success THEN "completed" ELSE "failed"

\* scheduler.py:80-81  persist the outcome
Update(k) ==
    /\ pc[k] = "update"
    /\ requests' = update_request_status(requests, Req(k), StatusOf(result[k]),
                                         result[k].message, today)
    /\ pc' = [pc EXCEPT ![k] = "notify"]
    /\ UNCHANGED <<evars, tvars, xvars, sendFailed, logins, paused>>
    /\ UNCHANGED <<today, jobDue, triggers, fetched, idx, driver, loggedIn,
                   result, attempts, runLog, notified>>

\* scheduler.py:84-93  notify (an exception of send_message is swallowed),
\* sleep, next request or fall out of the loop into the finally clause
Notify(k) ==
    /\ pc[k] = "notify"
    /\ notified' = [notified EXCEPT ![k] = Append(@, Req(k))]
    /\ idx' = [idx EXCEPT ![k] = @ + 1]
    /\ result' = [result EXCEPT ![k] = NoResult]
    /\ pc' = [pc EXCEPT ![k] = NextPc(k, "book")]
    /\ paused' = [paused EXCEPT ![k] = TRUE]
    /\ UNCHANGED <<evars, tvars, xvars, sendFailed, logins>>
    /\ UNCHANGED <<requests, today, jobDue, triggers, fetched, driver,
                   loggedIn, attempts, runLog>>

\* booking_scraper.py:433-437  close(): quit the driver if there is one
CloseKeepsOnRaise(k) == IF pc[k] = "finally_raise" THEN driver[k] ELSE FALSE
DriverAfterClose(k) == FALSE

\* scheduler.py:106-107  finally: scraper.close()
Close(k) ==
    /\ pc[k] \in {"finally", "finally_raise"}
    /\ driver' = [driver EXCEPT ![k] = DriverAfterClose(k)]
    /\ pc' = [pc EXCEPT ![k] = IF pc[k] = "finally" THEN "ended" ELSE "raised"]
    /\ UNCHANGED <<evars, tvars, xvars, sendFailed, logins, paused>>
    /\ UNCHANGED <<requests, today, jobDue, triggers, fetched, idx, loggedIn,
                   result, attempts, runLog, notified>>

\* process_pending_requests is left: its locals are gone. An exception that
\* escapes the job ends the polling thread (scheduler.py:122-126 has no handler).
Return(k) ==
    /\ pc[k] \in {"ended", "raised"}
    /\ pc' = [pc EXCEPT ![k] = IF k = "timer" /\ pc[k] = "raised"
                               THEN "dead" ELSE "idle"]
    /\ fetched' = [fetched EXCEPT ![k] = <<>>]
    /\ idx' = [idx EXCEPT ![k] = 0]
    /\ loggedIn' = [loggedIn EXCEPT ![k] = FALSE]
    /\ result' = [result EXCEPT ![k] = NoResult]
    /\ runLog' = [runLog EXCEPT ![k] = <<>>]
    /\ notified' = [notified EXCEPT ![k] = <<>>]
    /\ sendFailed' = [sendFailed EXCEPT ![k] = <<>>]
    /\ logins' = [logins EXCEPT ![k] = 0]
    /\ paused' = [paused EXCEPT ![k] = FALSE]
    /\ UNCHANGED <<evars, tvars, xvars>>
    /\ UNCHANGED <<requests, today, jobDue, triggers, driver, attempts>>

\* scheduler.py:81 -> 95  update_request_status raises inside the try block
UpdateRaises(k) ==
    /\ pc[k] = "update"
    /\ pc' = [pc EXCEPT ![k] = "except"]
    /\ UNCHANGED <<evars, tvars, xvars, sendFailed, logins, paused>>
    /\ UNCHANGED <<requests, today, jobDue, triggers, fetched, idx, driver,
                   loggedIn, result, attempts, runLog, notified>>

MsgException == "Error: exception text"

\* scheduler.py:95-97  except Exception: persist 'failed' with the exception text
ExceptUpdate(k) ==
    /\ pc[k] = "except"
    /\ requests' = update_request_status(requests, Req(k), "failed",
                                         MsgException, today)
    /\ pc' = [pc EXCEPT ![k] = "except_notify"]
    /\ UNCHANGED <<evars, tvars, xvars, sendFailed, logins, paused>>
    /\ UNCHANGED <<today, jobDue, triggers, fetched, idx, driver, loggedIn,
                   result, attempts, runLog, notified>>

\* scheduler.py:97  the update inside the handler raises: nothing catches it
ExceptUpdateRaises(k) ==
    /\ pc[k] = "except"
    /\ pc' = [pc EXCEPT ![k] = "finally_raise"]
    /\ UNCHANGED <<evars, tvars, xvars, sendFailed, logins, paused>>
    /\ UNCHANGED <<requests, today, jobDue, triggers, fetched, idx, driver,
                   loggedIn, result, attempts, runLog, notified>>

\* scheduler.py:98-104  notify from the handler, then the next request
ExceptNotify(k) ==
    /\ pc[k] = "except_notify"
    /\ notified' = [notified EXCEPT ![k] = Append(@, Req(k))]
    /\ idx' = [idx EXCEPT ![k] = @ + 1]
    /\ result' = [result EXCEPT ![k] = NoResult]
    /\ pc' = [pc EXCEPT ![k] = NextPc(k, "book")]
    /\ UNCHANGED <<evars, tvars, xvars, sendFailed, logins, paused>>
    /\ UNCHANGED <<requests, today, jobDue, triggers, fetched, driver,
                   loggedIn, attempts, runLog>>

\* scheduler.py:57  the update of the login-failure loop raises: nothing catches it
FailUpdateRaises(k) ==
    /\ pc[k] = "fail_update"
    /\ pc' = [pc EXCEPT ![k] = "finally_raise"]
    /\ UNCHANGED <<evars, tvars, xvars, sendFailed, logins, paused>>
    /\ UNCHANGED <<requests, today, jobDue, triggers, fetched, idx, driver,
                   loggedIn, result, attempts, runLog, notified>>

\* where the run goes when send_message raises: the except clause logs the
\* error (scheduler.py:63-64, 89-90, 103-104) and the for loop goes on
SendRaisesAborts(k) == "finally_raise"
AfterSendRaises(k) ==
    NextPc(k, IF pc[k] = "fail_notify" THEN "fail_update" ELSE "book")

\* scheduler.py:58-64, 84-93, 98-104  bot.send_message raises; after the
\* except clause of line 89 the sleep of line 93 follows
SendRaises(k) ==
    /\ pc[k] \in {"notify", "fail_notify", "except_notify"}
    /\ notified' = [notified EXCEPT ![k] = Append(@, Req(k))]
    /\ sendFailed' = [sendFailed EXCEPT ![k] = Append(@, Req(k))]
    /\ idx' = [idx EXCEPT ![k] = @ + 1]
    /\ result' = [result EXCEPT ![k] = NoResult]
    /\ pc' = [pc EXCEPT ![k] = AfterSendRaises(k)]
    /\ paused' = [paused EXCEPT ![k] = IF pc[k] = "notify" THEN TRUE ELSE @]
    /\ UNCHANGED <<evars, tvars, xvars, logins>>
    /\ UNCHANGED <<requests, today, jobDue, triggers, fetched, driver,
                   loggedIn, attempts, runLog>>

Step(k) ==
    \/ LoginRaises(k)
    \/ LoginFalse(k)
    \/ LoginTrue(k)
    \/ FailUpdate(k)
    \/ FailNotify(k)
    \/ MakeBooking(k)
    \/ Update(k)
    \/ Notify(k)
    \/ Close(k)
    \/ Return(k)

StoreFault(k) ==
    \/ UpdateRaises(k)
    \/ ExceptUpdate(k)
    \/ ExceptUpdateRaises(k)
    \/ ExceptNotify(k)
    \/ FailUpdateRaises(k)

\* The program with a store whose writes succeed: the timer thread, a thread
\* calling trigger_now, and the command handlers. A send_message that raises
\* differs from one that returns in a log line only: Notify and FailNotify
\* stand for both here, and SendRaises tells them apart in SpecFault.
Next ==
    \/ \E u \in BatchUsers, d \in Dates : Book(u, d)
    \/ \E id \in 1..(MaxReq + 1), u \in BatchUsers : Cancel(id, u)
    \/ Tick
    \/ TimerFire
    \/ TriggerNow
    \/ \E k \in Runners : Step(k)

Spec == Init /\ [][Next]_vars

\* The timer thread alone, with a store whose writes may raise (sqlite3.Error)
\* and a Telegram bot whose send_message may raise.
NextFault ==
    \/ \E u \in BatchUsers, d \in Dates : Book(u, d)
    \/ \E id \in 1..(MaxReq + 1), u \in BatchUsers : Cancel(id, u)
    \/ Tick
    \/ TimerFire
    \/ Step("timer")
    \/ StoreFault("timer")
    \/ SendRaises("timer")

SpecFault == Init /\ [][NextFault]_vars

\* The timer thread alone, with commands of every user.
NextSerial ==
    \/ \E u \in Users, d \in Dates : Book(u, d)
    \/ \E id \in 1..(MaxReq + 1), u \in Users : Cancel(id, u)
    \/ Tick
    \/ TimerFire
    \/ Step("timer")

SpecSerial == Init /\ [][NextSerial]_vars

\* ------------------------------------------------ _convert_time_format
\* a string is a sequence of one-character strings
DigitChars == <<"0", "1", "2", "3", "4", "5", "6", "7", "8", "9">>
IsDigit(c) == \E d \in 1..10 : DigitChars[d] = c
DigitOf(c) == (CHOOSE d \in 1..10 : DigitChars[d] = c) - 1
AllDigits(q) == \A i \in 1..Len(q) : IsDigit(q[i])
\* the number a field of one or two digits stands for
Value(q) == IF Len(q) = 1 THEN DigitOf(q[1])
            ELSE 10 * DigitOf(q[1]) + DigitOf(q[2])
\* a number 0..99 written with two digits
TwoDigits(n) == <<DigitChars[(n \div 10) + 1], DigitChars[(n % 10) + 1]>>

\* where '%H' ends: it takes one or two digits (2[0-3] | [0-1]\d | \d) and
\* ':' must follow
ColonAt(s) == IF Len(s) >= 2 /\ s[2] = ":" THEN 2
              ELSE IF Len(s) >= 3 /\ s[3] = ":" THEN 3
              ELSE 0

\* booking_scraper.py:186  datetime.strptime(time_str, '%H:%M'): the hour is
\* one or two digits up to 23, the minute one or two digits up to 59, and the
\* whole string must be used up; ok = FALSE stands for ValueError
strptime(s) ==
    LET p == ColonAt(s)
        H == SubSeq(s, 1, p - 1)
        M == SubSeq(s, p + 1, Len(s))
    IN  IF /\ p > 0
           /\ Len(M) \in {1, 2}
           /\ AllDigits(H)
           /\ AllDigits(M)
           /\ Value(H) <= 23
           /\ Value(M) <= 59
        THEN [ok |-> TRUE, hour |-> Value(H), minute |-> Value(M)]
        ELSE [ok |-> FALSE, hour |-> 0, minute |-> 0]

\* '%I': the hour on the 12-hour clock, 01..12
Hour12NoWrap(hour) == hour % 12
Hour12(hour) == IF hour % 12 = 0 THEN 12 ELSE hour % 12
\* '%p'
Meridiem(hour) == IF hour < 12 THEN <<"A", "M">> ELSE <<"P", "M">>

\* booking_scraper.py:188  time_obj.strftime('%I:%M %p')
strftime(t) ==
    TwoDigits(Hour12(t.hour)) \o <<":">> \o TwoDigits(t.minute)
        \o <<" ">> \o Meridiem(t.hour)

\* booking_scraper.py:182-191  on ValueError the input is returned as it is
convert_time_format(time_str) ==
    IF strptime(time_str).ok THEN strftime(strptime(time_str)) ELSE time_str

Digits == {DigitChars[d] : d \in 1..10}
\* the strings _convert_time_format is called with: every dd:dd, d:dd, dd:d
\* and d:d, labels that are already in 12-hour form, and malformed strings
TimeInputs ==
    {<<a, b, ":", c, d>> : a \in Digits, b \in Digits, c \in Digits, d \in Digits}
    \cup {<<a, ":", c, d>> : a \in Digits, c \in Digits, d \in Digits}
    \cup {<<a, b, ":", c>> : a \in Digits, b \in Digits, c \in Digits}
    \cup {<<a, ":", c>> : a \in Digits, c \in Digits}
    \cup {strftime([ok |-> TRUE, hour |-> h, minute |-> m]) :
             h \in 0..23, m \in {0, 5, 59}}
    \cup { <<>>, <<":">>, <<"1", "4", "0", "5">>,
           <<" ", "1", "4", ":", "0", "5">>, <<"1", "4", ":", "0", "5", " ">>,
           <<"1", "4", ":", "0", "0", "5">>, <<"0", "1", "4", ":", "0", "5">>,
           <<"1", "4", " ", ":", "0", "5">>, <<"a", "b", ":", "c", "d">> }

\* a call of _convert_time_format with any of these strings
TimeInit ==
    /\ epc = "off"
    /\ esel = 0
    /\ ecourt = FALSE
    /\ etrace = <<>>
    /\ eret = NoResult
    /\ etarget = NoTarget
    /\ CommandOff
    /\ SchedulerInit
    /\ pgSuccess = {}
    /\ pgError = {}
    /\ efound = NoneFound
    /\ tin \in TimeInputs
    /\ tout = NotCalled

ConvertTimeFormat ==
    /\ tout = NotCalled
    /\ tout' = convert_time_format(tin)
    /\ UNCHANGED <<bvars, evars, xvars, tin>>

InitTime == BatchInit /\ TimeInit

NextTime == ConvertTimeFormat

SpecTime == InitTime /\ [][NextTime]_vars

\* ----------------------------------------------------------- book_command
\* date_str: a string that does not match ^\d{4}-\d{2}-\d{2}$, one that matches
\* but is no calendar date (strptime raises ValueError), or a date (day number)
DateArgs ==
    {[form |-> "malformed", day |-> 0], [form |-> "unreal", day |-> 0]}
    \cup {[form |-> "date", day |-> d] : d \in -1..2}
\* time_str
TimeArgs == {<<"1", "0", ":", "0", "0">>, <<"9", ":", "0", "0">>,
             <<"2", "5", ":", "9", "9">>}
\* what may follow: a number or a word
MoreArgs == {<<"6", "0">>, <<"C", "7">>}
ArgLists ==
    {<<>>}
    \cup {<<d>> : d \in DateArgs}
    \cup {<<d, t>> : d \in DateArgs, t \in TimeArgs}
    \cup {<<d, t, a>> : d \in DateArgs, t \in TimeArgs, a \in MoreArgs}
    \cup {<<d, t, a, b>> : d \in DateArgs, t \in TimeArgs,
                           a \in MoreArgs, b \in MoreArgs}

\* main.py:63  int(s) of a string of one or two characters; ok = FALSE
\* stands for ValueError
int(s) == IF AllDigits(s) THEN [ok |-> TRUE, value |-> Value(s)]
          ELSE [ok |-> FALSE, value |-> 0]
\* main.py:89-90  re.match(r'^\d{2}:\d{2}$', time_str)
MatchesTimePattern(s) ==
    /\ Len(s) = 5
    /\ s[3] = ":"
    /\ \A i \in {1, 2, 4, 5} : IsDigit(s[i])
\* court_preference: None, or the words joined with blanks
NoCourt == [given |-> FALSE, words |-> <<>>]
Court(words) == [given |-> TRUE, words |-> words]
Reply(kind) == [reply |-> kind, created |-> FALSE]
\* main.py:58  the default of the docstring and of add_request
DefaultDuration == 90

\* main.py:61-69  duration and court_preference from args[2:]; raised = TRUE
\* stands for the IndexError of context.args[2], which `except ValueError`
\* does not catch
ParseRest(args) ==
    IF Len(args) < 3
    THEN [raised |-> TRUE, duration |-> 0, court |-> NoCourt]
    ELSE IF int(args[3]).ok
    THEN [raised |-> FALSE, duration |-> int(args[3]).value,
          court |-> IF Len(args) > 3 THEN Court(SubSeq(args, 4, Len(args)))
                    ELSE NoCourt]
    ELSE [raised |-> FALSE, duration |-> DefaultDuration,
          court |-> Court(SubSeq(args, 3, Len(args)))]

\* main.py:42-122  what book_command replies and stores, on day `now`
book_command(args, now) ==
    IF Len(args) < 2 THEN Reply("usage")
    ELSE IF ParseRest(args).raised THEN Reply("error")
    ELSE IF args[1].form = "malformed" THEN Reply("invalid_date_format")
    ELSE IF args[1].form = "unreal" THEN Reply("invalid_date")
    ELSE IF args[1].day < now THEN Reply("past_date")
    ELSE IF ~MatchesTimePattern(args[2]) THEN Reply("invalid_time_format")
    ELSE [reply |-> "created", created |-> TRUE,
          row |-> [requested_date |-> args[1].day,
                   requested_time |-> args[2],
                   court_preference |-> ParseRest(args).court,
                   duration |-> ParseRest(args).duration,
                   status |-> "pending"]]

\* a call of book_command with any of these argument lists
BookInit ==
    /\ epc = "off"
    /\ esel = 0
    /\ ecourt = FALSE
    /\ etrace = <<>>
    /\ eret = NoResult
    /\ etarget = NoTarget
    /\ pgSuccess = {}
    /\ pgError = {}
    /\ efound = NoneFound
    /\ tin = <<>>
    /\ tout = NotCalled
    /\ cargs \in ArgLists
    /\ cout = NotRun
    /\ SchedulerInit

BookCommand ==
    /\ cout = NotRun
    /\ cout' = book_command(cargs, today)
    /\ UNCHANGED <<bvars, evars, tvars, cargs, svars>>

InitBook == BatchInit /\ BookInit

NextBook == BookCommand

SpecBook == InitBook /\ [][NextBook]_vars

\* ---------------------------------------------------------- start and stop
\* start() and stop() calls made on one BookingScheduler
MaxCalls == 6

\* scheduler.py:113  if self.running: return
StartReturnsEarly == running

\* scheduler.py:111-130  start(): unless already running, register the daily
\* job, set running and start a new run_scheduler thread, which begins at the
\* test of its while loop
Start ==
    /\ calls < MaxCalls
    /\ calls' = calls + 1
    /\ IF StartReturnsEarly
       THEN UNCHANGED <<running, jobs, threads>>
       ELSE /\ jobs' = jobs + 1
            /\ running' = TRUE
            /\ threads' = Append(threads, "test")
    /\ UNCHANGED <<bvars, evars, tvars, cvars>>

\* scheduler.py:132-136  stop(): clear running and remove every job; the
\* thread is neither joined nor signalled
Stop ==
    /\ calls < MaxCalls
    /\ calls' = calls + 1
    /\ running' = FALSE
    /\ jobs' = 0
    /\ UNCHANGED threads
    /\ UNCHANGED <<bvars, evars, tvars, cvars>>

\* scheduler.py:124-126  `while self.running:` read by thread i: enter the
\* body (run_pending, then sleep) or leave the loop and end
ThreadTest(i) ==
    /\ threads[i] = "test"
    /\ threads' = [threads EXCEPT ![i] = IF running THEN "sleep" ELSE "exited"]
    /\ UNCHANGED <<running, jobs, calls>>
    /\ UNCHANGED <<bvars, evars, tvars, cvars>>

\* scheduler.py:126  time.sleep(60) of thread i is over
ThreadWake(i) ==
    /\ threads[i] = "sleep"
    /\ threads' = [threads EXCEPT ![i] = "test"]
    /\ UNCHANGED <<running, jobs, calls>>
    /\ UNCHANGED <<bvars, evars, tvars, cvars>>

NextStartStop ==
    \/ Start
    \/ Stop
    \/ \E i \in DOMAIN threads : ThreadTest(i)
    \/ \E i \in DOMAIN threads : ThreadWake(i)

SpecStartStop == Init /\ [][NextStartStop]_vars

\* ------------------------------------------- make_booking, stage by stage
\* booking_scraper.py:326-342, 379-392, 404-411  lengths of the selector lists
NumSubmitSelectors == 6
NumSuccessIndicators == 5
NumErrorIndicators == 6

Failure(m) == [success |-> FALSE, message |-> m]

\* the call returns: nothing more is done to the page
Return_(r) ==
    /\ epc' = "returned"
    /\ eret' = r
    /\ esel' = 0

Goto(stage) ==
    /\ epc' = stage
    /\ UNCHANGED eret

Did(event) == etrace' = Append(etrace, event)

\* booking_scraper.py:280-292, 356-362  the click on a located element: the
\* native click; if it raises, the script click on the same element; the
\* events this leaves behind
ScriptClickOnly(native_ok, script_ok, ev) ==
    IF script_ok THEN <<ev.script>> ELSE <<ev.raised, ev.failed>>
DualClick(native_ok, script_ok, ev) ==
    IF native_ok THEN <<ev.native>>
    ELSE IF script_ok THEN <<ev.raised, ev.script>>
    ELSE <<ev.raised, ev.failed>>
EntryClickEvents == [native |-> "entry_click", raised |-> "entry_click_raised",
                     script |-> "entry_js_click", failed |-> "entry_click_failed"]
SubmitClickEvents == [native |-> "submit_click", raised |-> "submit_click_raised",
                      script |-> "submit_js_click", failed |-> "submit_click_failed"]

\* the values of time_slot the engine is followed with (main.py:89-95 stores
\* only strings of the form dd:dd)
EngineTimes == {<<"0", "6", ":", "0", "0">>, <<"1", "4", ":", "0", "5">>}

\* booking_scraper.py:267-271  the cell target_xpath names: the same constants
\* whatever time_slot is
ENTRY_TIME == <<"0", "6", ":", "0", "0", " ", "A", "M">>
ENTRY_ID == "11"
EntryTargetRequested(time_slot) ==
    [area_id |-> ENTRY_ID, start_time |-> convert_time_format(time_slot)]
EntryTarget(time_slot) == [area_id |-> ENTRY_ID, start_time |-> ENTRY_TIME]

\* a call of make_booking starts; court_preference is given or not
EngineInit ==
    /\ epc = "get"
    /\ esel = 0
    /\ ecourt \in BOOLEAN
    /\ etrace = <<>>
    /\ eret = NoResult
    /\ etarget = NoTarget
    /\ CommandOff
    /\ SchedulerInit
    /\ pgSuccess = {}
    /\ pgError = {}
    /\ efound = NoneFound
    /\ tin \in EngineTimes
    /\ tout = NotCalled

\* booking_scraper.py:245-249  driver.get(url); an exception goes to line 427
Get ==
    /\ epc = "get"
    /\ \/ Goto("date") /\ UNCHANGED <<esel, etrace>>
       \/ Return_(Failure(MsgError)) /\ Did("exception")
    /\ UNCHANGED <<ecourt, bvars, xvars, tin, tout, etarget, pgSuccess, pgError, efound>>

\* booking_scraper.py:252-264  wait for the date link, scroll, script click;
\* a timeout or a script error goes to line 427
DateSelect ==
    /\ epc = "date"
    /\ \/ Goto("entry") /\ Did("date_click") /\ UNCHANGED esel
       \/ Return_(Failure(MsgError)) /\ Did("exception")
    /\ UNCHANGED <<ecourt, bvars, xvars, tin, tout, etarget, pgSuccess, pgError, efound>>

\* booking_scraper.py:273-298  the entry cell: TimeoutException -> line 298;
\* native click, else script click, else clicked stays False -> line 295;
\* any other exception of the wait or the scroll goes to line 427
SkipsForm == "submit"
AfterEntryClick == IF ecourt THEN "court" ELSE "time"
EntryClick ==
    /\ epc = "entry"
    /\ \/ Return_(Failure(MsgNoEntry)) /\ Did("entry_not_found")
       \/ Return_(Failure(MsgError)) /\ Did("exception")
       \/ \E native_ok \in BOOLEAN, script_ok \in BOOLEAN :
             /\ etrace' = etrace \o DualClick(native_ok, script_ok,
                                               EntryClickEvents)
             /\ IF native_ok \/ script_ok
                THEN Goto(AfterEntryClick) /\ UNCHANGED esel
                ELSE Return_(Failure(MsgNoClick))
    /\ etarget' = EntryTarget(tin)
    /\ UNCHANGED <<ecourt, bvars, xvars, tin, tout, pgSuccess, pgError, efound>>

\* booking_scraper.py:304-308  court dropdown; _select_dropdown_option returns
\* False on any exception (204-235) and the call goes on
CourtFatal(ok) == IF ok THEN "time" ELSE "returned"
AfterCourt(ok) == "time"
CourtSelect ==
    /\ epc = "court"
    /\ \E ok \in BOOLEAN :
          /\ Did(IF ok THEN "court_selected" ELSE "court_failed")
          /\ Goto(AfterCourt(ok))
    /\ UNCHANGED <<esel, ecourt, bvars, xvars, tin, tout, etarget, pgSuccess, pgError, efound>>

\* booking_scraper.py:311-315  formatted_time, then the time dropdown; False
\* returns line 314
TimeSelect ==
    /\ epc = "time"
    /\ \/ Did("time_selected") /\ Goto("duration") /\ UNCHANGED esel
       \/ Did("time_failed") /\ Return_(Failure(MsgNoTime))
    /\ tout' = convert_time_format(tin)
    /\ UNCHANGED <<ecourt, bvars, xvars, tin, etarget, pgSuccess, pgError, efound>>

\* booking_scraper.py:318-322  duration dropdown; False is logged only
DurationSelect ==
    /\ epc = "duration"
    /\ \E ok \in BOOLEAN :
          Did(IF ok THEN "duration_selected" ELSE "duration_failed")
    /\ Goto("submit")
    /\ esel' = 1
    /\ UNCHANGED <<ecourt, bvars, xvars, tin, tout, etarget, pgSuccess, pgError, efound>>

\* booking_scraper.py:345-370  one selector of submit_selectors: not found ->
\* continue; found: native click, else script click -> submitted; the scroll or
\* both clicks raising -> except Exception: continue. The page the portal
\* answers a click with shows some of the indicators.
SuccessPages == {{}, {1}, {3, 5}}
ErrorPages == {{}, {2}, {4, 6}}
\* booking_scraper.py:377-394  after the click the success list is scanned
ErrorsFirst == "error_scan"
AfterSubmit == "success_scan"
SubmitTry ==
    /\ epc = "submit"
    /\ esel <= NumSubmitSelectors
    /\ \/ \E native_ok \in BOOLEAN, script_ok \in BOOLEAN :
             /\ etrace' = etrace \o DualClick(native_ok, script_ok,
                                               SubmitClickEvents)
             /\ IF native_ok \/ script_ok
                THEN /\ Goto(AfterSubmit)
                     /\ esel' = 1
                     /\ pgSuccess' \in SuccessPages
                     /\ pgError' \in ErrorPages
                ELSE /\ esel' = esel + 1
                     /\ UNCHANGED <<epc, eret, pgSuccess, pgError>>
       \/ /\ \E how \in {"absent", "scroll_raised"} : TRUE
          /\ esel' = esel + 1
          /\ UNCHANGED <<epc, eret, etrace, pgSuccess, pgError>>
    /\ UNCHANGED <<ecourt, bvars, xvars, tin, tout, etarget, efound>>

\* booking_scraper.py:372-373  no selector led to a click
SubmitNone ==
    /\ epc = "submit"
    /\ esel > NumSubmitSelectors
    /\ Return_(Failure(MsgNoSubmit))
    /\ UNCHANGED <<etrace, ecourt, bvars, xvars, tin, tout, etarget, pgSuccess, pgError, efound>>

\* booking_scraper.py:399  the dict returned for a visible success indicator
UndeterminedIsSuccess == [success |-> TRUE, message |-> MsgUndetermined]
SuccessResult == [success |-> TRUE, message |-> MsgConfirmed]

\* booking_scraper.py:394-401  one success indicator: NoSuchElement ->
\* continue; found but not displayed -> next; displayed -> line 399;
\* another exception of is_displayed/text goes to line 427
SuccessScan ==
    /\ epc = "success_scan"
    /\ esel <= NumSuccessIndicators
    /\ \/ /\ esel \in pgSuccess
          /\ Did("success_visible")
          /\ Return_(SuccessResult)
          /\ efound' = [list |-> "success", index |-> esel]
       \/ Return_(Failure(MsgError)) /\ Did("exception") /\ UNCHANGED efound
       \/ /\ esel \notin pgSuccess
          /\ \E seen \in {"absent", "hidden"} : TRUE
          /\ IF esel < NumSuccessIndicators
             THEN esel' = esel + 1 /\ UNCHANGED <<epc, eret>>
             ELSE esel' = 1 /\ Goto("error_scan")
          /\ UNCHANGED <<etrace, efound>>
    /\ UNCHANGED <<ecourt, bvars, xvars, tin, tout, etarget, pgSuccess, pgError>>

\* booking_scraper.py:425  neither list had a visible element
UndeterminedResult == Failure(MsgUndetermined)

\* booking_scraper.py:413-425  one error indicator, as above -> line 418;
\* after the last one line 425
ErrorScan ==
    /\ epc = "error_scan"
    /\ esel <= NumErrorIndicators
    /\ \/ /\ esel \in pgError
          /\ Did("error_visible")
          /\ Return_(Failure(MsgFailed))
          /\ efound' = [list |-> "error", index |-> esel]
       \/ Return_(Failure(MsgError)) /\ Did("exception") /\ UNCHANGED efound
       \/ /\ esel \notin pgError
          /\ \E seen \in {"absent", "hidden"} : TRUE
          /\ IF esel < NumErrorIndicators
             THEN esel' = esel + 1 /\ UNCHANGED <<epc, eret>>
             ELSE Return_(UndeterminedResult)
          /\ UNCHANGED <<etrace, efound>>
    /\ UNCHANGED <<ecourt, bvars, xvars, tin, tout, etarget, pgSuccess, pgError>>

NextEngine ==
    \/ Get
    \/ DateSelect
    \/ EntryClick
    \/ CourtSelect
    \/ TimeSelect
    \/ DurationSelect
    \/ SubmitTry
    \/ SubmitNone
    \/ SuccessScan
    \/ ErrorScan

\* one call of make_booking on a logged-in session, the page answering freely
InitEngine == BatchInit /\ EngineInit

SpecEngine == InitEngine /\ [][NextEngine]_vars

\* ------------------------------------------------------------- properties
Range(f) == {f[i] : i \in DOMAIN f}
Last(q) == q[Len(q)]
Ids == DOMAIN requests
\* the thread k takes this step
Moves(k) == pc'[k] # pc[k]

\* C1: every request is attempted (make_booking called for its id) at most
\* once over the whole life of the system, whatever runs are interleaved.
C1_AtMostOnce == \A id \in DOMAIN attempts : attempts[id] <= 1

\* C2: when an execution of process_pending_requests has ended, in any way,
\* every request it fetched has status completed or failed.
C2_FetchedAreTerminal ==
    \A k \in Runners :
        pc[k] \in {"ended", "raised"} =>
            \A id \in Range(fetched[k]) :
                requests[id].status \in {"completed", "failed"}

\* C3: a run fetches exactly the rows that are pending with
\* requested_date = today + 2, and every row a step of the run writes, every
\* make_booking call and every notification of the run is for a fetched row;
\* all other rows keep status, processed_at and result_message.
C3_RunTouchesOnlyFetched ==
    [][\A k \in Runners :
          /\ (pc[k] = "idle" /\ Moves(k)) =>
                \A id \in Ids :
                    id \in Range(fetched'[k]) <=>
                        /\ requests[id].status = "pending"
                        /\ requests[id].requested_date = today + LeadDays
          /\ Moves(k) =>
                /\ Len(requests') = Len(requests)
                /\ \A id \in Ids \ Range(fetched[k]) :
                      /\ requests'[id] = requests[id]
                      /\ attempts'[id] = attempts[id]
                /\ Range(notified'[k]) \subseteq Range(fetched'[k])
                /\ Range(runLog'[k]) \subseteq Range(fetched'[k])]_vars

C3_Witness ==
    \E k \in Runners :
        /\ pc[k] = "ended"
        /\ fetched[k] # <<>>
        /\ \E i, j \in Ids \ Range(fetched[k]) :
              /\ requests[i].status = "pending"
              /\ requests[i].requested_date # requests[fetched[k][1]].requested_date
              /\ requests[i].processed_at = NULL
              /\ requests[j].status = "cancelled"
              /\ requests[j].requested_date = requests[fetched[k][1]].requested_date
              /\ requests[j].processed_at = NULL

Submitted == \E i \in DOMAIN etrace : etrace[i] \in {"submit_click", "submit_js_click"}
C5_SuccessOnlyOnVisibleSuccess ==
    epc = "returned" =>
        /\ eret.success <=> (etrace # <<>> /\ Last(etrace) = "success_visible")
        /\ eret.success => Submitted
        /\ (etrace # <<>> /\ Last(etrace) \in {"submit_click", "submit_js_click"})
              => eret = [success |-> FALSE, message |-> MsgUndetermined]

C5_Witness ==
    /\ epc = "returned"
    /\ Submitted
    /\ Last(etrace) \in {"submit_click", "submit_js_click"}
    /\ eret.message = MsgUndetermined

\* C6: once a request's status is completed, failed or cancelled, no step
\* changes its status.
C6_TerminalIsFinal ==
    [][\A id \in Ids :
          requests[id].status \in Terminal =>
              requests'[id].status = requests[id].status]_vars

\* C7: a request whose status is not pending is never pending again.
C7_NeverPendingAgain ==
    [][\A id \in Ids :
          requests[id].status # "pending" => requests'[id].status # "pending"]_vars

C7_Witness ==
    /\ \A k \in Runners : pc[k] = "ended"
    /\ \E id \in Ids :
          /\ attempts[id] = 2
          /\ requests[id].status \in {"completed", "failed"}

\* C8: cancel_request(id, user) returns True exactly when the row exists, is
\* pending and belongs to user; it then sets the status to cancelled and
\* changes nothing else, and a second cancel returns False; otherwise it leaves
\* the table as it is. A status becomes cancelled only from pending and only in
\* a cancel by the owner.
CancelAllowed(id, u) ==
    /\ id \in Ids
    /\ requests[id].status = "pending"
    /\ requests[id].user_id = u
C8_CancelOnlyPendingByOwner ==
    /\ [](\A id \in 1..(MaxReq + 1), u \in Users :
             /\ cancel_returns(requests, id, u) <=> CancelAllowed(id, u)
             /\ ~CancelAllowed(id, u) => cancel_request(requests, id, u) = requests)
    /\ [][/\ \A id \in 1..(MaxReq + 1), u \in Users :
                (Cancel(id, u) /\ CancelAllowed(id, u)) =>
                    /\ requests'[id] = [requests[id] EXCEPT !.status = "cancelled"]
                    /\ \A other \in Ids \ {id} : requests'[other] = requests[other]
                    /\ ~cancel_returns(requests', id, u)
          /\ \A id \in Ids :
                (requests[id].status # "cancelled" /\ requests'[id].status = "cancelled") =>
                    /\ requests[id].status = "pending"
                    /\ Cancel(id, requests[id].user_id)]_vars

C8_Witness ==
    \E i, j \in Ids :
        /\ requests[i].status = "cancelled"
        /\ requests[j].status = "completed"
        /\ requests[i].user_id # requests[j].user_id

\* C9: after a successful login the run calls make_booking for the fetched
\* requests in creation order, one at a time, on the session of the login; a
\* failed attempt does not stop the later ones: at the end of the run every
\* fetched request has been attempted.
Attempted(k) ==
    IF pc[k] \in {"update", "notify", "except", "except_notify"} THEN idx[k]
    ELSE IF pc[k] = "book" THEN idx[k] - 1
    ELSE Len(fetched[k])
C9_AttemptsInOrderDespiteFailure ==
    \A k \in Runners :
        /\ \A i, j \in DOMAIN fetched[k] : i < j => fetched[k][i] < fetched[k][j]
        /\ (loggedIn[k] /\ pc[k] # "raised" /\ pc[k] # "finally_raise") =>
              runLog[k] = SubSeq(fetched[k], 1, Attempted(k))
        /\ pc[k] \in {"book", "update", "notify"} => driver[k]

C9_Witness ==
    \E k \in Runners :
        /\ pc[k] = "ended"
        /\ loggedIn[k]
        /\ Len(fetched[k]) = 3
        /\ runLog[k] = fetched[k]
        /\ requests[fetched[k][2]].result_message = MsgNoEntry
        /\ requests[fetched[k][3]].status = "completed"

\* C10: when a run is over, however it ended, its browser session is closed.
C10_SessionClosedAfterRun ==
    \A k \in Runners : pc[k] \in {"idle", "ended", "raised", "dead"} => ~driver[k]

C10_Witness ==
    /\ pc["timer"] = "raised"
    /\ loggedIn["timer"]
    /\ ~driver["timer"]


\* the runners that are inside process_pending_requests (scheduler.py:24-109)
Running == {k \in Runners : pc[k] \notin {"idle", "dead", "ended", "raised"}}

\* C11: at any moment at most one execution of process_pending_requests is in
\* progress, whatever the interleaving of the timer thread with trigger_now
C11_OneRunAtATime == Cardinality(Running) <= 1

\* C12: a request a run has fetched is not left cancelled when that run ends,
\* even if its owner cancelled it after the fetch
C12_FetchedNotLeftCancelled ==
    \A k \in Runners :
        pc[k] \in {"ended", "raised"} =>
            \A i \in 1..Len(fetched[k]) :
                requests[fetched[k][i]].status # "cancelled"


\* the run of thread k logs a failed send_message in this step
SendFails(k) == Len(sendFailed'[k]) > Len(sendFailed[k])
NoRepeat(q) == \A i, j \in 1..Len(q) : q[i] = q[j] => i = j

\* C13: a send_message that raises changes no stored row and does not stop the
\* batch (the loop goes on to the next fetched request, or ends normally after
\* the last), and it is not retried: a run notifies each request at most once
\* and a run that ends normally has notified every fetched request once
C13_SendFailureIsSwallowed ==
    /\ [][\A k \in Runners :
            SendFails(k) =>
                /\ requests' = requests
                /\ idx'[k] = idx[k] + 1
                /\ pc'[k] = IF idx[k] = Len(fetched[k]) THEN "finally"
                            ELSE IF pc[k] = "fail_notify" THEN "fail_update"
                            ELSE "book"]_vars
    /\ [](\A k \in Runners :
            /\ NoRepeat(notified[k])
            /\ pc[k] = "ended" /\ fetched[k] # <<>> =>
                  notified[k] = fetched[k])

\* a run whose first notification raised went on and ended normally, having
\* attempted its second request
C13_Witness ==
    /\ pc["timer"] = "ended"
    /\ Len(fetched["timer"]) >= 2
    /\ sendFailed["timer"] # <<>>
    /\ sendFailed["timer"][1] = fetched["timer"][1]
    /\ runLog["timer"] = fetched["timer"]


\* C14: an exception raised while one request is processed never aborts the
\* batch: once logged in, a run does not end by an exception (the request is
\* marked failed with the exception text and the loop goes on)
C14_RequestExceptionNeverAborts ==
    \A k \in Runners :
        loggedIn[k] => pc[k] \notin {"finally_raise", "raised"}

\* C15: processed_at is non-null exactly for the rows in a terminal status
C15_ProcessedIffTerminal ==
    \A id \in Ids :
        requests[id].processed_at # NULL <=> requests[id].status \in Terminal


\* C16: every accepted request is attempted by the 07:00 run two days before
\* its date. While the polling thread lives, a pending request that no run has
\* attempted therefore still has that run ahead of it: its run day,
\* requested_date - LeadDays, is not in the past.
C16_PendingHasItsRunAhead ==
    pc["timer"] # "dead" =>
        \A id \in Ids :
            requests[id].status = "pending" /\ attempts[id] = 0 =>
                requests[id].requested_date - LeadDays >= today

\* C17: the daily job keeps firing however the runs of earlier days ended: the
\* polling thread that fires it never terminates
C17_PollingThreadAlive == pc["timer"] # "dead"


\* the 12-hour label of hour h, minute m: 0 -> 12 AM, 1..11 -> AM,
\* 12 -> 12 PM, 13..23 -> h - 12 PM
Label(h, m) ==
    LET hh == CASE h = 0 -> 12
                [] h \in 1..11 -> h
                [] h = 12 -> 12
                [] h \in 13..23 -> h - 12
        ap == IF h <= 11 THEN "A" ELSE "P"
    IN  TwoDigits(hh) \o <<":">> \o TwoDigits(m) \o <<" ", ap, "M">>
\* HH:MM, both fields with two digits
Padded(h, m) == TwoDigits(h) \o <<":">> \o TwoDigits(m)
\* the ways to write n with one or two digits
Written(n) == {TwoDigits(n)} \cup (IF n <= 9 THEN {<<DigitChars[n + 1]>>} ELSE {})
\* hour and minute with one or two digits each
Spellings(h, m) == {x \o <<":">> \o y : x \in Written(h), y \in Written(m)}
Hours == 0..23
Minutes == 0..59

\* C18 as stated: HH:MM with hour 0..23 and minute 0..59 is mapped to its
\* 12-hour label, and every other input is returned unchanged
C18_OnlyPaddedTimesConverted ==
    tout # NotCalled =>
        IF \E h \in Hours, m \in Minutes : tin = Padded(h, m)
        THEN \A h \in Hours, m \in Minutes :
                 tin = Padded(h, m) => tout = Label(h, m)
        ELSE tout = tin

\* C18: an hour 0..23 and a minute 0..59 written with one or two digits each
\* and separated by ':' is mapped to its zero-padded 12-hour label, and every
\* other input is returned unchanged
C18_TimesConvertedOthersUnchanged ==
    tout # NotCalled =>
        IF \E h \in Hours, m \in Minutes : tin \in Spellings(h, m)
        THEN \A h \in Hours, m \in Minutes :
                 tin \in Spellings(h, m) => tout = Label(h, m)
        ELSE tout = tin

\* 14:05 has been converted to 02:05 PM
C18_Witness ==
    /\ tin = <<"1", "4", ":", "0", "5">>
    /\ tout = <<"0", "2", ":", "0", "5", " ", "P", "M">>


SubmitEvents == {"submit_click", "submit_click_raised", "submit_js_click",
                 "submit_click_failed"}

\* C19: in one make_booking a failed time selection is the last thing that
\* happens: the call has returned the time failure and no submit control was
\* clicked. A failed court selection is followed by the time selection, and a
\* failed duration selection by the search for the submit control.
C19_OnlyTimeFailureIsFatal ==
    \A i \in 1..Len(etrace) :
        /\ etrace[i] = "time_failed" =>
              /\ i = Len(etrace)
              /\ epc = "returned"
              /\ eret = Failure(MsgNoTime)
              /\ \A j \in 1..Len(etrace) : etrace[j] \notin SubmitEvents
        /\ etrace[i] = "court_failed" =>
              IF i = Len(etrace) THEN epc = "time"
              ELSE etrace[i + 1] \in {"time_selected", "time_failed"}
        /\ etrace[i] = "duration_failed" =>
              IF i = Len(etrace)
              THEN epc = "submit" \/ (epc = "returned" /\ eret = Failure(MsgNoSubmit))
              ELSE etrace[i + 1] \in SubmitEvents

\* the court and the duration could not be selected, the time could, and the
\* call went on to click a submit control
C19_Witness ==
    /\ \E i \in 1..Len(etrace) : etrace[i] = "court_failed"
    /\ \E i \in 1..Len(etrace) : etrace[i] = "time_selected"
    /\ \E i \in 1..Len(etrace) : etrace[i] = "duration_failed"
    /\ Submitted
    /\ epc = "returned"


DropdownEvents == {"court_selected", "court_failed", "time_selected",
                   "time_failed", "duration_selected", "duration_failed"}

\* C20: when the entry cell is not found after the date was selected, the call
\* has returned the failure that names ID 11 at 06:00 AM, and no dropdown was
\* selected and no submit control clicked; and the cell looked for is the one
\* with data-area-id 11 and data-start-time 06:00 AM whatever time was asked for
C20_EntryCellIsCanonical ==
    /\ (\E i \in 1..Len(etrace) : etrace[i] = "entry_not_found") =>
          /\ etrace = <<"date_click", "entry_not_found">>
          /\ epc = "returned"
          /\ eret = [success |-> FALSE,
                     message |-> "Entry slot (ID 11 at 06:00 AM) not found in grid."]
          /\ \A j \in 1..Len(etrace) :
                etrace[j] \notin DropdownEvents \cup SubmitEvents
    /\ etarget # NoTarget =>
          etarget = [area_id |-> "11",
                     start_time |-> <<"0", "6", ":", "0", "0", " ", "A", "M">>]

\* a request for 14:05 whose entry cell, 11 at 06:00 AM, was not found
C20_Witness ==
    /\ tin = <<"1", "4", ":", "0", "5">>
    /\ etarget = EntryTarget(tin)
    /\ epc = "returned"
    /\ Last(etrace) = "entry_not_found"
    /\ eret.message = MsgNoEntry


\* the place of a stage in the order of make_booking
StageRank(stage) ==
    CASE stage = "get" -> 0
      [] stage = "date" -> 1
      [] stage = "entry" -> 2
      [] stage = "court" -> 3
      [] stage = "time" -> 4
      [] stage = "duration" -> 5
      [] stage = "submit" -> 6
      [] stage = "success_scan" -> 7
      [] stage = "error_scan" -> 8
      [] stage = "returned" -> 9
Has(event) == \E i \in 1..Len(etrace) : etrace[i] = event
\* the events with which a stage fails for good
FailureEvents == {"exception", "entry_not_found", "entry_click_failed",
                  "time_failed", "error_visible"}

\* C21: in one make_booking the stages follow each other in the order date,
\* entry cell, court, time, duration, submit, outcome detection and none is
\* entered again; a stage is entered only after its predecessor succeeded (the
\* date was clicked, the entry cell was clicked, the time was selected, a
\* submit control was clicked; court and duration may have failed); a failure
\* is the last thing that happens, the call has then returned success False,
\* and what a call has returned never changes
C21_StagesInOrder ==
    /\ [][/\ StageRank(epc') >= StageRank(epc)
          /\ epc' = epc => epc \in {"submit", "success_scan", "error_scan"}
                           /\ esel' = esel + 1
          /\ epc = "returned" => epc' = "returned" /\ eret' = eret]_evars
    /\ [](/\ StageRank(epc) >= 2 /\ epc # "returned" => Has("date_click")
          /\ StageRank(epc) >= 3 /\ epc # "returned" =>
                Has("entry_click") \/ Has("entry_js_click")
          /\ StageRank(epc) >= 5 /\ epc # "returned" => Has("time_selected")
          /\ StageRank(epc) >= 7 /\ epc # "returned" => Submitted
          /\ epc \in {"court"} => ecourt
          /\ \A i \in 1..Len(etrace) :
                etrace[i] \in FailureEvents =>
                    /\ i = Len(etrace)
                    /\ epc = "returned"
                    /\ ~eret.success
          /\ epc # "returned" => eret = NoResult)

\* a call that went through every stage and returned after the error scan
C21_Witness ==
    /\ epc = "returned"
    /\ Has("date_click")
    /\ Has("court_selected")
    /\ Has("time_selected")
    /\ Has("duration_selected")
    /\ Submitted
    /\ Last(etrace) = "error_visible"


Min(S) == CHOOSE x \in S : \A y \in S : x <= y
Scans == {"success_scan", "error_scan"}

\* C22: outcome detection goes through the success indicators in list order
\* first: when some success indicator is displayed, the first displayed one
\* yields success, also on a page that displays an error indicator too; the
\* error indicators are looked at only when no success indicator is displayed,
\* and then the first displayed one yields failure; with nothing displayed the
\* outcome is the undetermined failure
C22_SuccessBeforeFailure ==
    /\ [][/\ epc' # epc /\ epc' \in Scans => esel' = 1
          /\ epc' = epc /\ epc \in Scans => esel' = esel + 1
          /\ epc' = "error_scan" => epc \in Scans]_evars
    /\ [](/\ epc = "error_scan" => pgSuccess = {}
          /\ epc = "returned" /\ Submitted /\ Last(etrace) # "exception" =>
                IF pgSuccess # {}
                THEN /\ eret = [success |-> TRUE, message |-> MsgConfirmed]
                     /\ efound = [list |-> "success", index |-> Min(pgSuccess)]
                ELSE IF pgError # {}
                THEN /\ eret = [success |-> FALSE, message |-> MsgFailed]
                     /\ efound = [list |-> "error", index |-> Min(pgError)]
                ELSE /\ eret = [success |-> FALSE, message |-> MsgUndetermined]
                     /\ efound = NoneFound)

\* a page that displays the third and fifth success indicator and an error
\* indicator gave success through the third
C22_Witness ==
    /\ epc = "returned"
    /\ pgSuccess = {3, 5}
    /\ pgError # {}
    /\ eret.success
    /\ efound = [list |-> "success", index |-> 3]


\* the run of thread k calls make_booking / send_message in this step
Attempts(k) == Len(runLog'[k]) > Len(runLog[k])
Notifies(k) == Len(notified'[k]) > Len(notified[k])
Persisted(id) ==
    /\ requests[id].status \in {"completed", "failed"}
    /\ requests[id].processed_at # NULL

\* C23: when make_booking starts for a request, every earlier request of the
\* run has its status persisted and has been notified (or the notification
\* was tried), and a notification after an attempt is sent only when the
\* status of its request is already persisted
C23_PersistThenNotifyThenNext ==
    [][\A k \in Runners :
          /\ Attempts(k) =>
                /\ notified[k] = SubSeq(fetched[k], 1, idx[k] - 1)
                /\ \A j \in 1..(idx[k] - 1) : Persisted(fetched[k][j])
          /\ Notifies(k) /\ loggedIn[k] => Persisted(Req(k))]_vars

\* the second attempt of a run has started
C23_Witness ==
    /\ Len(runLog["timer"]) = 2
    /\ notified["timer"] = <<fetched["timer"][1]>>
    /\ Persisted(fetched["timer"][1])


\* C24: a run that fetched requests calls login exactly once, however many
\* requests it goes through, and its browser is created by that call only; a
\* run that fetched nothing calls no login, creates no browser, writes no row
\* and notifies nobody: it only returns
C24_OneLoginPerRun ==
    /\ [](\A k \in Runners :
            /\ fetched[k] # <<>> =>
                  logins[k] = IF pc[k] = "login" THEN 0 ELSE 1
            /\ fetched[k] = <<>> =>
                  /\ logins[k] = 0
                  /\ ~driver[k]
                  /\ runLog[k] = <<>>
                  /\ notified[k] = <<>>
                  /\ pc[k] \in {"idle", "ended", "dead"})
    /\ [][\A k \in Runners :
            /\ driver'[k] /\ ~driver[k] => pc[k] = "login" /\ logins'[k] = 1
            /\ pc[k] = "idle" /\ Moves(k) =>
                  /\ requests' = requests
                  /\ pc'[k] = IF fetched'[k] = <<>> THEN "ended" ELSE "login"
            /\ pc[k] = "ended" /\ fetched[k] = <<>> /\ Moves(k) =>
                  /\ requests' = requests
                  /\ pc'[k] = "idle"]_vars

\* a run that has gone through two requests after its single login
C24_Witness ==
    /\ pc["timer"] = "ended"
    /\ Len(runLog["timer"]) >= 2
    /\ logins["timer"] = 1


\* C25: once a run has persisted the outcome of the attempt it made for a
\* request, the request is completed exactly if make_booking returned
\* success True and failed otherwise, and its result_message is the message
\* make_booking returned
C25_StatusIsAttemptOutcome ==
    \A k \in Runners :
        pc[k] \in {"notify", "except_notify"} =>
            /\ requests[Req(k)].status = "completed" <=> result[k].success
            /\ requests[Req(k)].status = "failed" <=> ~result[k].success
            /\ requests[Req(k)].result_message = result[k].message


\* the event before / after position i of the trace, "" at the ends
Before(i) == IF i > 1 THEN etrace[i - 1] ELSE ""
After(i) == IF i < Len(etrace) THEN etrace[i + 1] ELSE ""
\* native first, the script click exactly when the native click raised
DualPath(i, ev) ==
    /\ etrace[i] = ev.native => Before(i) # ev.raised
    /\ etrace[i] = ev.raised => After(i) \in {ev.script, ev.failed}
    /\ etrace[i] = ev.script => Before(i) = ev.raised
    /\ etrace[i] = ev.failed => Before(i) = ev.raised

\* C26 as stated: every click is dual-path, and when both clicks on an
\* element have raised nothing more is tried: the call has returned failure
C26_BothClicksFailingEndsAttempt ==
    \A i \in 1..Len(etrace) :
        /\ DualPath(i, EntryClickEvents)
        /\ DualPath(i, SubmitClickEvents)
        /\ etrace[i] \in {"entry_click_failed", "submit_click_failed"} =>
              /\ i = Len(etrace)
              /\ epc = "returned"
              /\ ~eret.success

\* C26: the click on the entry cell and on a submit control is dual-path;
\* when both clicks raise on the entry cell the call has returned the failure
\* to click it; when both raise on a submit control the next submit selector
\* is tried, and the call fails for want of a submit click only after the
\* last selector
C26_DualPathNextSubmitCandidate ==
    \A i \in 1..Len(etrace) :
        /\ DualPath(i, EntryClickEvents)
        /\ DualPath(i, SubmitClickEvents)
        /\ etrace[i] = "entry_click_failed" =>
              /\ i = Len(etrace)
              /\ epc = "returned"
              /\ eret = [success |-> FALSE, message |-> MsgNoClick]
        /\ etrace[i] = "submit_click_failed" =>
              IF i < Len(etrace)
              THEN After(i) \in {"submit_click", "submit_click_raised"}
              ELSE \/ epc = "submit" /\ esel >= 2
                   \/ /\ epc = "returned"
                      /\ eret = [success |-> FALSE, message |-> MsgNoSubmit]

\* both clicks raised on one submit control, a later one was clicked by
\* script, and the call went on to outcome detection and returned
C26_Witness ==
    /\ epc = "returned"
    /\ Has("submit_click_failed")
    /\ Has("submit_js_click")
    /\ Has("entry_js_click")


\* C27: whichever way the attempt for a request ended, the pause
\* (time.sleep(2)) has run when the run is about to call make_booking for the
\* next request
C27_PauseBeforeNextAttempt ==
    \A k \in Runners :
        pc[k] = "book" /\ runLog[k] # <<>> => paused[k]


\* C28: /book with a date that is not in the past and a time dd:dd, and
\* nothing else, stores one pending request with duration 90 and no court
C28_DateAndTimeSuffice ==
    /\ cout # NotRun
    /\ Len(cargs) = 2
    /\ cargs[1].form = "date"
    /\ cargs[1].day >= today
    /\ cargs[2] = <<"1", "0", ":", "0", "0">>
    => /\ cout.created
       /\ cout.row.status = "pending"
       /\ cout.row.duration = 90
       /\ ~cout.row.court_preference.given

\* C29: login() ends every call by returning True or False: a run that calls
\* it goes on to the first attempt or to the login-failure branch, and no
\* exception of login reaches process_pending_requests
C29_LoginNeverRaises ==
    [][\A k \in Runners :
          (pc[k] = "login" /\ Moves(k)) => pc'[k] \in {"book", "fail_update"}
      ]_vars

\* run_scheduler threads that are still inside their loop
Polling == {i \in DOMAIN threads : threads[i] # "exited"}

\* C30: whatever start() and stop() calls have been made, at most one thread
\* is executing the run_scheduler loop and at most one daily job is registered
C30_OnePollerOneJob ==
    /\ Cardinality(Polling) <= 1
    /\ jobs <= 1

============================================================================
